---- MODULE Spec2Model ----
(***************************************************************************)
(* Model of utils.py: the column normaliser (normalize_columns), the chunk *)
(* generator (generate_finops_chunks) and the ingestion router             *)
(* (extract_text).                                                         *)
(*                                                                         *)
(* Data representation.                                                    *)
(*   - A DataFrame is [cols |-> sequence of column names,                  *)
(*     rows |-> sequence of rows], a row being a sequence of cells aligned *)
(*     with cols.  Column names may repeat, as in pandas.                  *)
(*   - A cell is Num(n) (a float, held in mills: 1/1000 dollar),           *)
(*     Str(s) (a Python str, s a sequence of one-character strings),       *)
(*     Ts(p) (a parsed timestamp, p the month ordinal year*12+month-1),    *)
(*     Per(p) (a monthly Period) or NaN (NaN / NaT / None).                *)
(*   - A double that results from a division is held exactly as            *)
(*     (-1)^neg * m * 2^sc, m a natural number in limbs of LimbBits bits.  *)
(***************************************************************************)
EXTENDS Integers, Sequences, FiniteSets, TLC

VARIABLES
    pc,       \* the position of the running function
    file,     \* the uploaded file: [type, name, sheets]
    tmp,      \* the temporary file of the document path: [created, exists]
    sheet,    \* the position of the sheet loop of the spreadsheet path
    df,       \* the frame read from the upload
    canon,    \* the outcome of normalize_columns: [raised, df]
    again,    \* the outcome of normalize_columns on its own output
    chunks,   \* the outcome of generate_finops_chunks: [raised, chunks, df]
    exc,      \* the exception in flight or caught ("none" when there is none)
    pending,  \* what the try of lines 200-203 left for its finally to deliver
    ret       \* what extract_text returned: [text, table]

vars == <<pc, file, tmp, sheet, df, canon, again, chunks, exc, pending, ret>>

----------------------------------------------------------------------------
(* Natural numbers of any size, little-endian limbs, base 2^LimbBits.  The *)
(* doubles of pct_change and of the share of bill need 53-bit significands.*)

LimbBits == 15

LimbBase == 2 ^ LimbBits

Min(a, b) == IF a < b THEN a ELSE b

Max(a, b) == IF a > b THEN a ELSE b

Abs(a) == IF a < 0 THEN -a ELSE a

RECURSIVE BNorm(_)
BNorm(x) ==
    IF x = <<>> THEN <<>>
    ELSE IF x[Len(x)] = 0 THEN BNorm(SubSeq(x, 1, Len(x) - 1)) ELSE x

RECURSIVE BFromInt(_)
BFromInt(n) ==
    IF n = 0 THEN <<>> ELSE <<n % LimbBase>> \o BFromInt(n \div LimbBase)

RECURSIVE BToInt(_)
BToInt(x) ==
    IF x = <<>> THEN 0 ELSE x[1] + LimbBase * BToInt(Tail(x))

Limb(x, i) == IF i <= Len(x) THEN x[i] ELSE 0

RECURSIVE BAddC(_, _, _, _)
BAddC(x, y, i, carry) ==
    IF i > Max(Len(x), Len(y))
    THEN (IF carry = 0 THEN <<>> ELSE <<carry>>)
    ELSE LET s == Limb(x, i) + Limb(y, i) + carry
         IN  <<s % LimbBase>> \o BAddC(x, y, i + 1, s \div LimbBase)

BAdd(x, y) == BNorm(BAddC(x, y, 1, 0))

\* x - y for x >= y
RECURSIVE BSubC(_, _, _, _)
BSubC(x, y, i, borrow) ==
    IF i > Len(x) THEN <<>>
    ELSE LET d == Limb(x, i) - Limb(y, i) - borrow
         IN  IF d < 0 THEN <<d + LimbBase>> \o BSubC(x, y, i + 1, 1)
             ELSE <<d>> \o BSubC(x, y, i + 1, 0)

BSub(x, y) == BNorm(BSubC(x, y, 1, 0))

\* x * k for a small k (k * 2^LimbBits stays below 2^31)
RECURSIVE BMulC(_, _, _, _)
BMulC(x, k, i, carry) ==
    IF i > Len(x) THEN BFromInt(carry)
    ELSE LET p == x[i] * k + carry
         IN  <<p % LimbBase>> \o BMulC(x, k, i + 1, p \div LimbBase)

BMulSmall(x, k) == BNorm(BMulC(x, k, 1, 0))

\* -1, 0, 1 as x < y, x = y, x > y (both normalised)
RECURSIVE BCmpAt(_, _, _)
BCmpAt(x, y, i) ==
    IF i = 0 THEN 0
    ELSE IF x[i] > y[i] THEN 1
    ELSE IF x[i] < y[i] THEN -1
    ELSE BCmpAt(x, y, i - 1)

BCmp(x, y) ==
    IF Len(x) > Len(y) THEN 1
    ELSE IF Len(x) < Len(y) THEN -1
    ELSE BCmpAt(x, y, Len(x))

Zeros(n) == [i \in 1..n |-> 0]

BShl(x, n) ==
    IF x = <<>> THEN <<>>
    ELSE Zeros(n \div LimbBits) \o BMulSmall(x, 2 ^ (n % LimbBits))

\* floor(x / 2^n)
BShr(x, n) ==
    LET q == n \div LimbBits
        r == n % LimbBits
    IN  IF q >= Len(x) THEN <<>>
        ELSE BNorm([i \in 1..(Len(x) - q) |->
                     (x[i + q] \div (2 ^ r))
                     + (Limb(x, i + q + 1) % (2 ^ r)) * (2 ^ (LimbBits - r))])

\* x mod 2^n
BLowBits(x, n) ==
    LET q == n \div LimbBits
        r == n % LimbBits
    IN  IF q >= Len(x) THEN x
        ELSE BNorm(SubSeq(x, 1, q) \o <<x[q + 1] % (2 ^ r)>>)

RECURSIVE IntBitLen(_)
IntBitLen(n) == IF n = 0 THEN 0 ELSE 1 + IntBitLen(n \div 2)

BBitLen(x) ==
    IF x = <<>> THEN 0 ELSE LimbBits * (Len(x) - 1) + IntBitLen(x[Len(x)])

BIsOdd(x) == x # <<>> /\ x[1] % 2 = 1

\* floor(x / 2^n), rounded to nearest, ties to even (IEEE-754 default)
BShrRound(x, n) ==
    IF n = 0 THEN x
    ELSE LET q    == BShr(x, n)
             low  == BLowBits(x, n)
             half == BShl(<<1>>, n - 1)
             c    == BCmp(low, half)
         IN  IF c > 0 \/ (c = 0 /\ BIsOdd(q)) THEN BAdd(q, <<1>>) ELSE q

----------------------------------------------------------------------------
(* IEEE-754 binary64 values: [cls, neg, m, sc], the value of a finite one  *)
(* being (-1)^neg * m * 2^sc with m < 2^53 (or m = 2^53).                  *)

Significand == 53

Fin(neg, m, sc) == [cls |-> "fin", neg |-> neg, m |-> m, sc |-> sc]

FInf(neg) == [cls |-> "inf", neg |-> neg, m |-> <<>>, sc |-> 0]

FNaN == [cls |-> "nan", neg |-> FALSE, m |-> <<>>, sc |-> 0]

\* round an exact value to the 53-bit significand
FRound(neg, m, sc) ==
    LET L == BBitLen(m)
    IN  IF L <= Significand THEN Fin(neg, m, sc)
        ELSE Fin(neg, BShrRound(m, L - Significand), sc + (L - Significand))

\* a, b > 0 scaled by powers of two until b <= a < 2b: <<a, b, exponent>>
RECURSIVE ScaleRatio(_, _, _)
ScaleRatio(a, b, e) ==
    IF a < b THEN ScaleRatio(2 * a, b, e - 1)
    ELSE IF a >= 2 * b THEN ScaleRatio(a, 2 * b, e + 1)
    ELSE <<a, b, e>>

\* the next n bits of the quotient r/B (r < B): <<bits as a number, remainder>>
RECURSIVE DivBits(_, _, _)
DivBits(r, B, n) ==
    IF n = 0 THEN <<0, r>>
    ELSE LET bit  == IF 2 * r >= B THEN 1 ELSE 0
             rest == DivBits(2 * r - bit * B, B, n - 1)
         IN  <<bit * (2 ^ (n - 1)) + rest[1], rest[2]>>

\* limbs of the quotient, least significant first, and the final remainder
RECURSIVE DivLimbs(_, _, _)
DivLimbs(r, B, n) ==
    IF n = 0 THEN <<<<>>, r>>
    ELSE LET hi   == DivBits(r, B, LimbBits)
             rest == DivLimbs(hi[2], B, n - 1)
         IN  <<rest[1] \o <<hi[1]>>, rest[2]>>

\* float(a) / float(b) for integers a, b that are exact as doubles
FDiv(a, b) ==
    IF b = 0 THEN (IF a = 0 THEN FNaN ELSE FInf(a < 0))
    ELSE IF a = 0 THEN Fin(b < 0, <<>>, 0)
    ELSE LET s     == ScaleRatio(Abs(a), Abs(b), 0)
             whole == (Significand - 1) \div LimbBits
             top   == (Significand - 1) % LimbBits
             hi    == DivBits(s[1] - s[2], s[2], top)
             lo    == DivLimbs(hi[2], s[2], whole)
             m     == BNorm(lo[1] \o <<2 ^ top + hi[1]>>)
             c     == 2 * lo[2] - s[2]
             up    == c > 0 \/ (c = 0 /\ BIsOdd(m))
         IN  Fin((a < 0) # (b < 0),
                 IF up THEN BAdd(m, <<1>>) ELSE m,
                 s[3] - (Significand - 1))

\* x - 1.0
FSubOne(x) ==
    IF x.cls # "fin" THEN x
    ELSE LET one == IF x.sc <= 0 THEN BShl(<<1>>, -x.sc) ELSE <<1>>
             m   == IF x.sc <= 0 THEN x.m ELSE BShl(x.m, x.sc)
             sc  == Min(x.sc, 0)
         IN  IF x.neg THEN FRound(TRUE, BAdd(m, one), sc)
             ELSE IF BCmp(m, one) >= 0 THEN FRound(FALSE, BSub(m, one), sc)
             ELSE FRound(TRUE, BSub(one, m), sc)

\* x * 100
FMul100(x) ==
    IF x.cls # "fin" THEN x ELSE FRound(x.neg, BMulSmall(x.m, 100), x.sc)

\* abs(x) > k for a small natural k; NaN compares false
FAbsGt(x, k) ==
    IF x.cls = "nan" THEN FALSE
    ELSE IF x.cls = "inf" THEN TRUE
    ELSE IF x.sc <= 0 THEN BCmp(x.m, BShl(BFromInt(k), -x.sc)) > 0
    ELSE BCmp(BShl(x.m, x.sc), BFromInt(k)) > 0

\* x > 0
FPositive(x) ==
    /\ x.cls # "nan"
    /\ ~x.neg
    /\ (x.cls = "inf" \/ x.m # <<>>)

\* f"{abs(x):.1f}": the decimal with one digit that is nearest to abs(x),
\* ties to even, held in tenths; "inf" and "nan" print as themselves
FormatTenths(x) ==
    IF x.cls # "fin" THEN [special |-> x.cls]
    ELSE LET m10 == BMulSmall(x.m, 10)
         IN  [tenths |-> BToInt(IF x.sc >= 0 THEN BShl(m10, x.sc)
                                ELSE BShrRound(m10, -x.sc))]

----------------------------------------------------------------------------
(* Python str values: sequences of one-character strings.                  *)

UpperChars ==
    << "A", "B", "C", "D", "E", "F", "G", "H", "I", "J", "K", "L", "M",
       "N", "O", "P", "Q", "R", "S", "T", "U", "V", "W", "X", "Y", "Z" >>

LowerChars ==
    << "a", "b", "c", "d", "e", "f", "g", "h", "i", "j", "k", "l", "m",
       "n", "o", "p", "q", "r", "s", "t", "u", "v", "w", "x", "y", "z" >>

DigitChars == << "0", "1", "2", "3", "4", "5", "6", "7", "8", "9" >>

\* the characters of the model in code-point order
AsciiOrder ==
    << " ", "$", "(", ")", ",", "-", "." >> \o DigitChars \o UpperChars
       \o << "_" >> \o LowerChars

IndexIn(seq, c) == IF \E i \in DOMAIN seq : seq[i] = c
                   THEN CHOOSE i \in DOMAIN seq : seq[i] = c
                   ELSE 0

IsUpper(c) == IndexIn(UpperChars, c) # 0

IsLower(c) == IndexIn(LowerChars, c) # 0

IsDigit(c) == IndexIn(DigitChars, c) # 0

IsSpace(c) == c = " "

LowerChar(c) == IF IsUpper(c) THEN LowerChars[IndexIn(UpperChars, c)] ELSE c

UpperChar(c) == IF IsLower(c) THEN UpperChars[IndexIn(LowerChars, c)] ELSE c

\* str.lower()
Lower(s) == [i \in DOMAIN s |-> LowerChar(s[i])]

\* str.strip()
RECURSIVE LStrip(_)
LStrip(s) == IF s # <<>> /\ IsSpace(Head(s)) THEN LStrip(Tail(s)) ELSE s

RECURSIVE RStrip(_)
RStrip(s) ==
    IF s # <<>> /\ IsSpace(s[Len(s)])
    THEN RStrip(SubSeq(s, 1, Len(s) - 1)) ELSE s

Strip(s) == RStrip(LStrip(s))

\* str.title(): a cased character is upper-cased when it follows an uncased
\* one (or starts the string) and lower-cased otherwise
Title(s) ==
    [i \in DOMAIN s |->
        IF i > 1 /\ (IsUpper(s[i - 1]) \/ IsLower(s[i - 1]))
        THEN LowerChar(s[i]) ELSE UpperChar(s[i])]

\* sub in s
Contains(s, sub) ==
    \E i \in 0..(Len(s) - Len(sub)) : SubSeq(s, i + 1, i + Len(sub)) = sub

\* s < t, code-point lexicographic order
RECURSIVE StrLess(_, _)
StrLess(s, t) ==
    IF t = <<>> THEN FALSE
    ELSE IF s = <<>> THEN TRUE
    ELSE IF Head(s) = Head(t) THEN StrLess(Tail(s), Tail(t))
    ELSE IndexIn(AsciiOrder, Head(s)) < IndexIn(AsciiOrder, Head(t))

\* re.sub(r'[$,]', '', s)
RECURSIVE StripCurrency(_)
StripCurrency(s) ==
    IF s = <<>> THEN <<>>
    ELSE IF Head(s) \in {"$", ","} THEN StripCurrency(Tail(s))
    ELSE <<Head(s)>> \o StripCurrency(Tail(s))

AllDigits(s) == \A i \in DOMAIN s : IsDigit(s[i])

RECURSIVE DigitsValue(_)
DigitsValue(s) ==
    IF s = <<>> THEN 0
    ELSE 10 * DigitsValue(SubSeq(s, 1, Len(s) - 1))
         + (IndexIn(DigitChars, s[Len(s)]) - 1)

RECURSIVE IntDigits(_)
IntDigits(n) ==
    IF n < 10 THEN <<DigitChars[n + 1]>>
    ELSE IntDigits(n \div 10) \o <<DigitChars[(n % 10) + 1]>>

----------------------------------------------------------------------------
(* Cells.  Money is held in mills (1/1000 dollar).                         *)

Mills == 1000

Num(n) == [t |-> "num", n |-> n]

Str(s) == [t |-> "str", s |-> s]

Ts(p) == [t |-> "ts", p |-> p]

Per(p) == [t |-> "per", p |-> p]

NaN == [t |-> "nan"]

\* the decimal number a string spells, in mills: [ok, n].  Digits with at
\* most one point and at most three decimals, surrounding blanks allowed
ParseNumber(s) ==
    LET b     == Strip(s)
        dot   == IndexIn(b, ".")
        whole == IF dot = 0 THEN b ELSE SubSeq(b, 1, dot - 1)
        frac  == IF dot = 0 THEN <<>> ELSE SubSeq(b, dot + 1, Len(b))
        pad   == frac \o SubSeq(<<"0", "0", "0">>, 1, 3 - Len(frac))
    IN  IF /\ Len(whole) + Len(frac) > 0
           /\ AllDigits(whole) /\ AllDigits(frac) /\ Len(frac) <= 3
        THEN [ok |-> TRUE, n |-> DigitsValue(whole) * Mills + DigitsValue(pad)]
        ELSE [ok |-> FALSE, n |-> 0]

\* pd.to_numeric(errors='coerce') of one cell
ToNumeric(c) ==
    IF c.t = "num" THEN c
    ELSE IF c.t = "str" /\ ParseNumber(c.s).ok THEN Num(ParseNumber(c.s).n)
    ELSE NaN

\* .fillna(0.0)
FillNa(c) == IF c.t = "nan" THEN Num(0) ELSE c

\* Series.replace(r'[$,]', '', regex=True): only str cells are rewritten
ReplaceCurrency(c) == IF c.t = "str" THEN Str(StripCurrency(c.s)) ELSE c

\* the month ordinal of a year and a month
MonthsPerYear == 12

EpochYear == 1970

\* the month a date string falls in: [ok, p].  The strings of the model
\* that are dates are spelled "YYYY-MM-DD"
ParseDate(s) ==
    LET ym == /\ Len(s) = 10
              /\ AllDigits(SubSeq(s, 1, 4)) /\ s[5] = "-"
              /\ AllDigits(SubSeq(s, 6, 7))
              /\ DigitsValue(SubSeq(s, 6, 7)) \in 1..MonthsPerYear
        d  == /\ s[8] = "-" /\ AllDigits(SubSeq(s, 9, 10))
              /\ DigitsValue(SubSeq(s, 9, 10)) \in 1..28
    IN  IF ym /\ d
        THEN [ok |-> TRUE,
              p  |-> DigitsValue(SubSeq(s, 1, 4)) * MonthsPerYear
                     + DigitsValue(SubSeq(s, 6, 7)) - 1]
        ELSE [ok |-> FALSE, p |-> 0]

\* pd.to_datetime(errors='coerce') of one cell; a number counts nanoseconds
\* from the epoch
ToDatetime(c) ==
    IF c.t = "ts" THEN c
    ELSE IF c.t = "num" THEN Ts(EpochYear * MonthsPerYear)
    ELSE IF c.t = "str" /\ ParseDate(Strip(c.s)).ok
         THEN Ts(ParseDate(Strip(c.s)).p)
    ELSE NaN

\* .dt.to_period('M')
ToPeriod(c) == IF c.t = "ts" THEN Per(c.p) ELSE NaN

\* str(x) of a float held in mills
FloatRepr(n) ==
    LET f  == Abs(n) % Mills
        d3 == <<DigitChars[(f \div 100) + 1], DigitChars[((f \div 10) % 10) + 1],
                DigitChars[(f % 10) + 1]>>
        d  == IF f % 100 = 0 THEN SubSeq(d3, 1, 1)
              ELSE IF f % 10 = 0 THEN SubSeq(d3, 1, 2) ELSE d3
    IN  (IF n < 0 THEN <<"-">> ELSE <<>>) \o IntDigits(Abs(n) \div Mills)
        \o <<".">> \o d

\* .astype(str) of one cell
AsStr(c) ==
    IF c.t = "str" THEN c.s
    ELSE IF c.t = "num" THEN FloatRepr(c.n)
    ELSE IF c.t = "nan" THEN <<"n", "a", "n">>
    ELSE IntDigits(c.p \div MonthsPerYear) \o <<"-">>
         \o (IF (c.p % MonthsPerYear) + 1 < 10 THEN <<"0">> ELSE <<>>)
         \o IntDigits((c.p % MonthsPerYear) + 1)

----------------------------------------------------------------------------
(* DataFrames.                                                             *)

CostCol == <<"c", "o", "s", "t">>

ServiceCol == <<"s", "e", "r", "v", "i", "c", "e">>

DateCol == <<"d", "a", "t", "e">>

RegionCol == <<"r", "e", "g", "i", "o", "n">>

ResourceIdCol == <<"r", "e", "s", "o", "u", "r", "c", "e", "_", "i", "d">>

MonthCol == <<"m", "o", "n", "t", "h">>

Frame(cols, rows) == [cols |-> cols, rows |-> rows]

NoFrame == [none |-> TRUE]

\* the positions of the columns called name
ColsNamed(d, name) == {i \in DOMAIN d.cols : d.cols[i] = name}

\* name in df.columns
HasCol(d, name) == ColsNamed(d, name) # {}

\* df[name] is a Series only when one column carries the name; with several
\* it is a DataFrame, which has neither .dtype nor .str
IsSeries(d, name) == Cardinality(ColsNamed(d, name)) = 1

ColOf(d, name) == CHOOSE i \in DOMAIN d.cols : d.cols[i] = name

\* df[name] = values, cell by cell, for a name one column carries;
\* values[r] is the new cell of row r
MapCol(d, name, values) ==
    Frame(d.cols,
          [r \in DOMAIN d.rows |->
              [i \in DOMAIN d.cols |->
                  IF d.cols[i] = name THEN values[r] ELSE d.rows[r][i]]])

\* the cell of row r in the one column called name
CellAt(d, name, r) == d.rows[r][ColOf(d, name)]

\* df[name] = values: replaces the column when it exists, appends it otherwise
SetCol(d, name, values) ==
    IF HasCol(d, name)
    THEN Frame(d.cols,
               [r \in DOMAIN d.rows |->
                   [i \in DOMAIN d.cols |->
                       IF d.cols[i] = name THEN values[r] ELSE d.rows[r][i]]])
    ELSE Frame(Append(d.cols, name),
               [r \in DOMAIN d.rows |-> Append(d.rows[r], values[r])])

\* df.empty: no rows or no columns
IsEmpty(d) == d.rows = <<>> \/ d.cols = <<>>

\* dtype == 'object': the column holds a str
IsObject(d, i) == \E r \in DOMAIN d.rows : d.rows[r][i].t = "str"

----------------------------------------------------------------------------
(* normalize_columns                                                       *)

col_map ==
    << <<CostCol,
         << <<"u", "n", "b", "l", "e", "n", "d", "e", "d", "c", "o", "s", "t">>,
            <<"p", "r", "e", "t", "a", "x", "c", "o", "s", "t">>,
            <<"t", "o", "t", "a", "l", "c", "o", "s", "t">>,
            <<"c", "o", "s", "t">>,
            <<"a", "m", "o", "u", "n", "t">> >> >>,
       <<ServiceCol,
         << <<"p", "r", "o", "d", "u", "c", "t", "n", "a", "m", "e">>,
            <<"s", "e", "r", "v", "i", "c", "e", "n", "a", "m", "e">>,
            <<"s", "e", "r", "v", "i", "c", "e">>,
            <<"m", "e", "t", "e", "r", "c", "a", "t", "e", "g", "o", "r", "y">>,
            <<"p", "r", "o", "d", "u", "c", "t">> >> >>,
       <<DateCol,
         << <<"u", "s", "a", "g", "e", "s", "t", "a", "r", "t", "d", "a", "t", "e">>,
            <<"b", "i", "l", "l", "i", "n", "g", "p", "e", "r", "i", "o", "d",
              "s", "t", "a", "r", "t", "d", "a", "t", "e">>,
            <<"u", "s", "a", "g", "e", "_", "d", "a", "t", "e">>,
            <<"d", "a", "t", "e">>,
            <<"u", "s", "a", "g", "e", "_", "s", "t", "a", "r", "t", "_",
              "t", "i", "m", "e">> >> >>,
       <<RegionCol,
         << <<"a", "v", "a", "i", "l", "a", "b", "i", "l", "i", "t", "y",
              "z", "o", "n", "e">>,
            <<"r", "e", "g", "i", "o", "n">>,
            <<"l", "o", "c", "a", "t", "i", "o", "n">>,
            <<"u", "s", "a", "g", "e", "_", "r", "e", "g", "i", "o", "n">> >> >>,
       <<ResourceIdCol,
         << <<"r", "e", "s", "o", "u", "r", "c", "e", "i", "d">>,
            <<"i", "n", "s", "t", "a", "n", "c", "e", "i", "d">>,
            <<"r", "e", "s", "o", "u", "r", "c", "e", "_", "n", "a", "m", "e">>,
            <<"r", "e", "s", "o", "u", "r", "c", "e">> >> >> >>

\* df.columns = df.columns.astype(str).str.lower().str.strip()
CleanColumnNames(d) ==
    Frame([i \in DOMAIN d.cols |-> Strip(Lower(d.cols[i]))], d.rows)

\* the first variation of a standard name that is a column of df, 0 if none
FirstMatch(d, variations) ==
    IF \E k \in DOMAIN variations : HasCol(d, variations[k])
    THEN CHOOSE k \in DOMAIN variations :
            /\ HasCol(d, variations[k])
            /\ \A j \in 1..(k - 1) : ~HasCol(d, variations[j])
    ELSE 0

\* normalized_cols: the columns to rename, as a set of <<var, standard>>
NormalizedCols(d) ==
    {<<col_map[e][2][FirstMatch(d, col_map[e][2])], col_map[e][1]>> :
        e \in {x \in DOMAIN col_map : FirstMatch(d, col_map[x][2]) # 0}}

\* df.rename(columns=normalized_cols): every column called var is renamed
Rename(d, mapping) ==
    Frame([i \in DOMAIN d.cols |->
              IF \E m \in mapping : m[1] = d.cols[i]
              THEN (CHOOSE m \in mapping : m[1] = d.cols[i])[2]
              ELSE d.cols[i]],
          d.rows)

CleanCostCell(c) == FillNa(ToNumeric(c))

CleanCostCellObject(c) == FillNa(ToNumeric(ReplaceCurrency(c)))

\* lines 36-41; raises when df['cost'] is not a Series
CleanCost(d) ==
    IF ~HasCol(d, CostCol) THEN [raised |-> FALSE, df |-> d]
    ELSE IF ~IsSeries(d, CostCol) THEN [raised |-> TRUE, df |-> d]
    ELSE IF IsObject(d, ColOf(d, CostCol))
         THEN [raised |-> FALSE, df |-> MapCol(d, CostCol,
                    [k \in DOMAIN d.rows |-> CleanCostCellObject(CellAt(d, CostCol, k))])]
    ELSE [raised |-> FALSE, df |-> MapCol(d, CostCol,
                    [k \in DOMAIN d.rows |-> CleanCostCell(CellAt(d, CostCol, k))])]

StripCell(c) == Str(Strip(AsStr(c)))

TitleCell(c) == Str(Title(Strip(AsStr(c))))

\* lines 44-48 for one text column; raises when df[text_col] is not a Series
CleanText(r, text_col) ==
    IF r.raised \/ ~HasCol(r.df, text_col) THEN r
    ELSE IF ~IsSeries(r.df, text_col) THEN [raised |-> TRUE, df |-> r.df]
    ELSE IF text_col = ServiceCol
         THEN [raised |-> FALSE, df |-> MapCol(r.df, text_col,
                    [k \in DOMAIN r.df.rows |-> TitleCell(CellAt(r.df, text_col, k))])]
    ELSE [raised |-> FALSE, df |-> MapCol(r.df, text_col,
                    [k \in DOMAIN r.df.rows |-> StripCell(CellAt(r.df, text_col, k))])]

\* normalize_columns(df): [raised, df]; raised stands for the AttributeError
\* of a DataFrame that is asked for .dtype or .str
normalize_columns(d) ==
    LET named   == CleanColumnNames(d)
        renamed == Rename(named, NormalizedCols(named))
    IN  CleanText(CleanText(CleanText(CleanCost(renamed), ServiceCol),
                            RegionCol),
                  ResourceIdCol)

----------------------------------------------------------------------------
(* Grouping and sorting, as pandas does them for the sizes of this model:  *)
(* groupby sorts the group keys and drops the rows whose key is missing;   *)
(* sort_values keeps equal sums in group order (ascending or descending;   *)
(* for up to 16 entries the default sort is an insertion sort).            *)

CellLess(a, b) ==
    IF a.t = "str" /\ b.t = "str" THEN StrLess(a.s, b.s)
    ELSE IF a.t = "num" /\ b.t = "num" THEN a.n < b.n
    ELSE IF a.t \in {"ts", "per"} /\ b.t \in {"ts", "per"} THEN a.p < b.p
    ELSE FALSE

\* keys are tuples of cells, compared left to right
RECURSIVE KeyLess(_, _)
KeyLess(a, b) ==
    IF a = <<>> \/ b = <<>> THEN FALSE
    ELSE IF Head(a) = Head(b) THEN KeyLess(Tail(a), Tail(b))
    ELSE CellLess(Head(a), Head(b))

RECURSIVE SortKeys(_)
SortKeys(K) ==
    IF K = {} THEN <<>>
    ELSE LET least == CHOOSE k \in K : \A j \in K : ~KeyLess(j, k)
         IN  <<least>> \o SortKeys(K \ {least})

\* the key of row r over the columns by (a sequence of column names)
KeyOf(d, by, r) == [k \in DOMAIN by |-> d.rows[r][ColOf(d, by[k])]]

KeyPresent(key) == \A k \in DOMAIN key : key[k].t # "nan"

\* the cost of a row, as .sum() adds it (a missing value adds nothing)
CostOf(d, r) ==
    LET c == d.rows[r][ColOf(d, CostCol)]
    IN  IF c.t = "num" THEN c.n ELSE 0

RECURSIVE SumOver(_, _)
SumOver(d, R) ==
    IF R = {} THEN 0
    ELSE LET r == CHOOSE x \in R : TRUE
         IN  CostOf(d, r) + SumOver(d, R \ {r})

\* df[rows].groupby(by)['cost'].sum(): <<key, sum>> in key order
GroupSum(d, by, R) ==
    LET live == {r \in R : KeyPresent(KeyOf(d, by, r))}
        keys == SortKeys({KeyOf(d, by, r) : r \in live})
    IN  [g \in DOMAIN keys |->
            <<keys[g], SumOver(d, {r \in live : KeyOf(d, by, r) = keys[g]})>>]

\* insertion of an entry behind every entry that does not come after it
RECURSIVE InsertAsc(_, _)
InsertAsc(sorted, e) ==
    IF sorted = <<>> THEN <<e>>
    ELSE IF e[2] < Head(sorted)[2] THEN <<e>> \o sorted
    ELSE <<Head(sorted)>> \o InsertAsc(Tail(sorted), e)

RECURSIVE InsertDesc(_, _)
InsertDesc(sorted, e) ==
    IF sorted = <<>> THEN <<e>>
    ELSE IF e[2] > Head(sorted)[2] THEN <<e>> \o sorted
    ELSE <<Head(sorted)>> \o InsertDesc(Tail(sorted), e)

\* .sort_values(ascending=True)
RECURSIVE SortAscending(_)
SortAscending(g) ==
    IF g = <<>> THEN <<>>
    ELSE InsertAsc(SortAscending(SubSeq(g, 1, Len(g) - 1)), g[Len(g)])

\* .sort_values(ascending=False)
RECURSIVE SortDescending(_)
SortDescending(g) ==
    IF g = <<>> THEN <<>>
    ELSE InsertDesc(SortDescending(SubSeq(g, 1, Len(g) - 1)), g[Len(g)])

\* .head(n)
HeadN(g, n) == SubSeq(g, 1, Min(n, Len(g)))

\* f"{x:,.2f}" of an amount in mills: the amount in cents, nearest, ties to
\* even
Money(n) ==
    LET a == Abs(n)
        q == a \div 10
        r == a % 10
        c == IF r > 5 \/ (r = 5 /\ q % 2 = 1) THEN q + 1 ELSE q
    IN  IF n < 0 THEN -c ELSE c

----------------------------------------------------------------------------
(* generate_finops_chunks.  A chunk is a record: kind names the f-string   *)
(* that builds it and the other fields are the values formatted into it.   *)

TopServices == 10

TopRegions == 5

TopResources == 10

TopWasteResources == 10

TopWasteServices == 5

LowestShown == 5

AlertPercent == 10

LowCostDollars == 5

waste_keywords ==
    << <<"s", "n", "a", "p", "s", "h", "o", "t">>,
       <<"v", "o", "l", "u", "m", "e">>,
       <<"s", "t", "o", "r", "a", "g", "e">>,
       <<"i", "p">>,
       <<"u", "n", "u", "s", "e", "d">>,
       <<"i", "d", "l", "e">>,
       <<"s", "t", "o", "p", "p", "e", "d">> >>

AllRows(d) == DOMAIN d.rows

\* lines 62-64: the date column parsed and the month column derived from it
WithMonth(d) ==
    IF ~HasCol(d, DateCol) THEN d
    ELSE LET parsed == MapCol(d, DateCol,
                    [k \in DOMAIN d.rows |-> ToDatetime(CellAt(d, DateCol, k))])
         IN  SetCol(parsed, MonthCol,
                    [r \in DOMAIN parsed.rows |->
                        ToPeriod(parsed.rows[r][ColOf(parsed, DateCol)])])

\* the exceptions pandas raises on the way: a column name that several
\* columns carry (df[name] is then a DataFrame, groupby(name) is not
\* 1-dimensional), a cost cell that is a str, a service or resource_id cell
\* that is not a str (.str.lower() / "k in x")
ChunksRaise(d) ==
    \/ \E name \in {CostCol, ServiceCol, DateCol, MonthCol, RegionCol,
                    ResourceIdCol} : HasCol(d, name) /\ ~IsSeries(d, name)
    \/ \E r \in DOMAIN d.rows :
          \/ d.rows[r][ColOf(d, CostCol)].t \notin {"num", "nan"}
          \/ d.rows[r][ColOf(d, ServiceCol)].t # "str"
          \/ /\ HasCol(d, ResourceIdCol)
             /\ d.rows[r][ColOf(d, ResourceIdCol)].t # "str"

\* line 67
TotalSpend(d) == SumOver(d, AllRows(d))

\* line 68
TotalChunk(d) == <<[kind |-> "total", amount |-> Money(TotalSpend(d))]>>

\* line 71 without .head(10)
ServiceSpendAll(d) == SortDescending(GroupSum(d, <<ServiceCol>>, AllRows(d)))

\* line 71 with the .head(5) of the regions
ServiceSpendTopFive(d) ==
    HeadN(SortDescending(GroupSum(d, <<ServiceCol>>, AllRows(d))), TopRegions)

\* line 71
ServiceSpend(d) ==
    HeadN(SortDescending(GroupSum(d, <<ServiceCol>>, AllRows(d))), TopServices)

\* lines 72-74
ServiceChunks(d) ==
    LET top == ServiceSpend(d)
    IN  [i \in DOMAIN top |->
            [kind    |-> "service",
             service |-> top[i][1][1].s,
             amount  |-> Money(top[i][2]),
             share   |-> FormatTenths(FMul100(FDiv(top[i][2], TotalSpend(d))))]]

\* line 78
MonthlySpend(d) == GroupSum(d, <<MonthCol>>, AllRows(d))

\* line 82: the change of bucket i against bucket i - 1, in percent
PctChange(series, i) ==
    IF i = 1 THEN FNaN
    ELSE FMul100(FSubOne(FDiv(series[i][2], series[i - 1][2])))

\* lines 83-86
RECURSIVE AlertChunks(_, _)
AlertChunks(series, i) ==
    IF i > Len(series) THEN <<>>
    ELSE LET change == PctChange(series, i)
         IN  (IF change.cls # "nan" /\ FAbsGt(change, AlertPercent)
              THEN <<[kind      |-> "alert",
                      direction |-> IF FPositive(change) THEN "increased"
                                    ELSE "decreased",
                      percent   |-> FormatTenths(change),
                      period    |-> series[i][1][1]]>>
              ELSE <<>>)
             \o AlertChunks(series, i + 1)

\* lines 77-86
TrendChunks(d) ==
    IF ~HasCol(d, MonthCol) THEN <<>>
    ELSE <<[kind |-> "trend", series |-> MonthlySpend(d)]>>
         \o AlertChunks(MonthlySpend(d), 1)

\* lines 89-91
RegionChunks(d) ==
    IF ~HasCol(d, RegionCol) THEN <<>>
    ELSE <<[kind   |-> "regions",
            series |-> HeadN(SortDescending(
                                GroupSum(d, <<RegionCol>>, AllRows(d))),
                             TopRegions)]>>

\* lines 94-98
ResourceChunks(d) ==
    IF ~HasCol(d, ResourceIdCol) THEN <<>>
    ELSE LET top == HeadN(SortDescending(
                             GroupSum(d, <<ResourceIdCol, ServiceCol>>,
                                      AllRows(d))),
                          TopResources)
         IN  <<[kind |-> "resources_header"]>>
             \o [i \in DOMAIN top |->
                    [kind        |-> "resource",
                     resource_id |-> top[i][1][1].s,
                     service     |-> top[i][1][2].s,
                     amount      |-> Money(top[i][2])]]

\* any(k in x for k in waste_keywords)
HasWasteKeyword(x) ==
    \E k \in DOMAIN waste_keywords : Contains(x, waste_keywords[k])

\* lines 109-113
MaskKeywords(d, r) ==
    \/ HasWasteKeyword(Lower(d.rows[r][ColOf(d, ServiceCol)].s))
    \/ /\ HasCol(d, ResourceIdCol)
       /\ HasWasteKeyword(Lower(d.rows[r][ColOf(d, ResourceIdCol)].s))

\* line 117
MaskLowCost(d, r) ==
    LET c == d.rows[r][ColOf(d, CostCol)]
    IN  c.t = "num" /\ c.n > 0 /\ c.n < LowCostDollars * Mills

\* line 120: the rows of potential_waste
PotentialWaste(d) == {r \in AllRows(d) : MaskKeywords(d, r) \/ MaskLowCost(d, r)}

\* lines 123-135
WasteChunks(d) ==
    LET byRes == HeadN(SortDescending(
                          GroupSum(d, <<ServiceCol, ResourceIdCol>>,
                                   PotentialWaste(d))),
                       TopWasteResources)
        bySvc == HeadN(SortDescending(
                          GroupSum(d, <<ServiceCol>>, PotentialWaste(d))),
                       TopWasteServices)
    IN  <<[kind |-> "waste_header"]>>
        \o (IF HasCol(d, ResourceIdCol)
            THEN [i \in DOMAIN byRes |->
                     [kind        |-> "waste_resource",
                      resource_id |-> byRes[i][1][2].s,
                      service     |-> byRes[i][1][1].s,
                      amount      |-> Money(byRes[i][2])]]
            ELSE [i \in DOMAIN bySvc |->
                     [kind    |-> "waste_service",
                      service |-> bySvc[i][1][1].s,
                      amount  |-> Money(bySvc[i][2])]])

\* the entries of a sorted selection whose cost is > 0, in order
RECURSIVE PositiveOnly(_)
PositiveOnly(g) ==
    IF g = <<>> THEN <<>>
    ELSE (IF Head(g)[2] > 0 THEN <<Head(g)>> ELSE <<>>)
         \o PositiveOnly(Tail(g))

\* line 141
LowestResources(d) ==
    HeadN(SortAscending(GroupSum(d, <<ResourceIdCol, ServiceCol>>, AllRows(d))),
          LowestShown)

\* line 146
LowestServices(d) ==
    HeadN(SortAscending(GroupSum(d, <<ServiceCol>>, AllRows(d))), LowestShown)

\* lines 139-149
LowestChunks(d) ==
    LET byRes == PositiveOnly(LowestResources(d))
        bySvc == PositiveOnly(LowestServices(d))
    IN  <<[kind |-> "lowest_header"]>>
        \o (IF HasCol(d, ResourceIdCol)
            THEN [i \in DOMAIN byRes |->
                     [kind        |-> "lowest_resource",
                      resource_id |-> byRes[i][1][1].s,
                      service     |-> byRes[i][1][2].s,
                      amount      |-> Money(byRes[i][2])]]
            ELSE [i \in DOMAIN bySvc |->
                     [kind    |-> "lowest_service",
                      service |-> bySvc[i][1][1].s,
                      amount  |-> Money(bySvc[i][2])]])

\* lines 122-149
IdleChunks(d) ==
    IF PotentialWaste(d) # {} THEN WasteChunks(d) ELSE LowestChunks(d)

\* generate_finops_chunks(df): [raised, chunks, df]; df is the caller's
\* frame as the function leaves it (date parsed, month added)
generate_finops_chunks(d) ==
    IF ~(HasCol(d, CostCol) /\ HasCol(d, ServiceCol))
    THEN [raised |-> FALSE, chunks |-> <<[kind |-> "dump", table |-> d]>>,
          df |-> d]
    ELSE IF ChunksRaise(d) \/ ChunksRaise(WithMonth(d))
    THEN [raised |-> TRUE, chunks |-> <<>>, df |-> d]
    ELSE LET m == WithMonth(d)
         IN  [raised |-> FALSE,
              chunks |-> TotalChunk(m) \o ServiceChunks(m) \o TrendChunks(m)
                         \o RegionChunks(m) \o ResourceChunks(m)
                         \o IdleChunks(m),
              df     |-> m]

----------------------------------------------------------------------------
(* extract_text                                                            *)

CsvType == "text/csv"

XlsxType == "application/vnd.openxmlformats-officedocument.spreadsheetml.sheet"

PdfType == "application/pdf"

NoOutcome == [raised |-> FALSE, none |-> TRUE]

NoRet == [none |-> TRUE]

None == [none |-> TRUE]

NoTmp == [created |-> FALSE, exists |-> FALSE, suffix |-> <<>>]

\* the text of a return value: the literal it starts with and what follows
Text(literal, rest) == [literal |-> literal, rest |-> rest]

ErrorWord == <<"E", "r", "r", "o", "r">>

\* line 161
EmptyCsvText ==
    Text(ErrorWord \o <<":", " ", "T", "h", "e", " ", "u", "p", "l", "o", "a",
                        "d", "e", "d", " ", "C", "S", "V", " ", "f", "i", "l",
                        "e", " ", "i", "s", " ", "e", "m", "p", "t", "y", ".">>,
         "")

\* line 183
EmptyExcelText ==
    Text(ErrorWord \o <<":", " ", "T", "h", "e", " ", "u", "p", "l", "o", "a",
                        "d", "e", "d", " ", "E", "x", "c", "e", "l", " ", "f",
                        "i", "l", "e", " ", "i", "s", " ", "e", "m", "p", "t",
                        "y", " ", "o", "r", " ", "c", "o", "n", "t", "a", "i",
                        "n", "s", " ", "n", "o", " ", "d", "a", "t", "a", " ",
                        "i", "n", " ", "a", "n", "y", " ", "s", "h", "e", "e",
                        "t", ".">>,
         "")

\* line 167: f"Error processing CSV: {str(e)}"
CsvErrorText(e) ==
    Text(ErrorWord \o <<" ", "p", "r", "o", "c", "e", "s", "s", "i", "n", "g",
                        " ", "C", "S", "V", ":", " ">>, e)

\* line 189: f"Error processing Excel: {str(e)}"
ExcelErrorText(e) ==
    Text(ErrorWord \o <<" ", "p", "r", "o", "c", "e", "s", "s", "i", "n", "g",
                        " ", "E", "x", "c", "e", "l", ":", " ">>, e)

\* line 210: f"Error processing file with Docling: {str(e)}"
DoclingErrorText(e) ==
    Text(ErrorWord \o <<" ", "p", "r", "o", "c", "e", "s", "s", "i", "n", "g",
                        " ", "f", "i", "l", "e", " ", "w", "i", "t", "h", " ",
                        "D", "o", "c", "l", "i", "n", "g", ":", " ">>, e)

\* "\n\n".join(chunks)
JoinedText(cs) == Text(<<>>, cs)

\* result.document.export_to_markdown()
MarkdownText == Text(<<>>, "markdown")

\* the suffix of the temporary file (line 195)
RECURSIVE LastPart(_)
LastPart(name) ==
    IF IndexIn(name, ".") = 0 THEN name
    ELSE LastPart(SubSeq(name, IndexIn(name, ".") + 1, Len(name)))

Suffix(name) ==
    IF IndexIn(name, ".") # 0 THEN <<".">> \o LastPart(name)
    ELSE <<".", "t", "m", "p">>

\* what an except clause of extract_text does with the exception e: the
\* function returns the error text and no table
Caught(text) == [pc |-> "returned", ret |-> [text |-> text, table |-> None]]

\* the except clauses (lines 166, 188, 209) catch every Exception
ExceptCsv(e) == Caught(CsvErrorText(e))

ExceptExcel(e) == Caught(ExcelErrorText(e))

\* a handler that lets the exception of os.remove through to the caller
ExceptDoclingNotRemove(e) ==
    IF e = "remove" THEN [pc |-> "propagated", ret |-> NoRet]
    ELSE Caught(DoclingErrorText(e))

ExceptDocling(e) == Caught(DoclingErrorText(e))

\* line 157, 169, 192: the route by declared content type
Dispatch ==
    /\ pc = "start"
    /\ pc' = IF file.type = CsvType THEN "csv_read"
             ELSE IF file.type = XlsxType THEN "xlsx_open"
             ELSE "doc_create"
    /\ UNCHANGED <<file, tmp, sheet, df, canon, again, chunks, exc, pending, ret>>

\* a step of a try block that raised e; handled is what the except clause
\* around it makes of e
Raise(e, handled) ==
    /\ exc' = e
    /\ pc' = handled.pc
    /\ ret' = handled.ret

\* lines 159-161: pd.read_csv and the emptiness test
ReadCsv ==
    /\ pc = "csv_read"
    /\ \/ /\ Raise("read_csv", ExceptCsv("read_csv"))
          /\ UNCHANGED df
       \/ /\ df' = file.sheets[1]
          /\ IF IsEmpty(file.sheets[1])
             THEN /\ pc' = "returned"
                  /\ ret' = [text |-> EmptyCsvText, table |-> None]
             ELSE /\ pc' = "csv_normalize"
                  /\ ret' = ret
          /\ UNCHANGED exc
    /\ UNCHANGED <<file, tmp, sheet, canon, again, chunks, pending>>

\* lines 163, 185: df = normalize_columns(df)
Normalize(at, next, handled) ==
    /\ pc = at
    /\ canon' = normalize_columns(df)
    /\ IF canon'.raised
       THEN Raise("normalize_columns", handled)
       ELSE /\ pc' = next
            /\ UNCHANGED <<exc, ret>>
    /\ UNCHANGED <<file, tmp, sheet, df, again, chunks, pending>>

\* lines 164-165, 186-187: the chunks, joined, and the frame
Generate(at, handled) ==
    /\ pc = at
    /\ chunks' = generate_finops_chunks(canon.df)
    /\ IF chunks'.raised
       THEN /\ Raise("generate_finops_chunks", handled)
            /\ UNCHANGED canon
       ELSE /\ canon' = [raised |-> FALSE, df |-> chunks'.df]
            /\ pc' = "returned"
            /\ ret' = [text |-> JoinedText(chunks'.chunks), table |-> chunks'.df]
            /\ UNCHANGED exc
    /\ UNCHANGED <<file, tmp, sheet, df, again, pending>>

NormalizeCsv == Normalize("csv_normalize", "csv_chunks", ExceptCsv("normalize_columns"))

GenerateCsv == Generate("csv_chunks", ExceptCsv("generate_finops_chunks"))

\* lines 172-175: pd.ExcelFile(file), sheet_names, df = pd.DataFrame()
OpenExcel ==
    /\ pc = "xlsx_open"
    /\ \/ /\ Raise("ExcelFile", ExceptExcel("ExcelFile"))
          /\ UNCHANGED <<df, sheet>>
       \/ /\ df' = Frame(<<>>, <<>>)
          /\ sheet' = 1
          /\ pc' = "xlsx_sheet"
          /\ UNCHANGED <<exc, ret>>
    /\ UNCHANGED <<file, tmp, canon, again, chunks, pending>>

\* lines 176-183: one turn of the sheet loop, and the emptiness test after it
ReadSheet ==
    /\ pc = "xlsx_sheet"
    /\ IF sheet > Len(file.sheets)
       THEN /\ IF IsEmpty(df)
               THEN /\ pc' = "returned"
                    /\ ret' = [text |-> EmptyExcelText, table |-> None]
               ELSE /\ pc' = "xlsx_normalize"
                    /\ ret' = ret
            /\ UNCHANGED <<df, sheet, exc>>
       ELSE \/ /\ Raise("read_excel", ExceptExcel("read_excel"))
               /\ UNCHANGED <<df, sheet>>
            \/ /\ IF ~IsEmpty(file.sheets[sheet])
                  THEN /\ df' = file.sheets[sheet]
                       /\ sheet' = Len(file.sheets) + 1
                  ELSE /\ df' = df
                       /\ sheet' = sheet + 1
               /\ UNCHANGED <<pc, exc, ret>>
    /\ UNCHANGED <<file, tmp, canon, again, chunks, pending>>

NormalizeExcel == Normalize("xlsx_normalize", "xlsx_chunks",
                            ExceptExcel("normalize_columns"))

GenerateExcel == Generate("xlsx_chunks", ExceptExcel("generate_finops_chunks"))

\* lines 195-196: the temporary file is created (delete=False)
CreateTemp ==
    /\ pc = "doc_create"
    /\ \/ /\ Raise("NamedTemporaryFile", ExceptDocling("NamedTemporaryFile"))
          /\ UNCHANGED tmp
       \/ /\ tmp' = [created |-> TRUE, exists |-> TRUE,
                     suffix |-> Suffix(file.name)]
          /\ pc' = "doc_write"
          /\ UNCHANGED <<exc, ret>>
    /\ UNCHANGED <<file, sheet, df, canon, again, chunks, pending>>

\* lines 197-198: tmp.write(file.read()); leaving the with block closes the
\* file and, with delete=False, leaves it on disk
WriteTemp ==
    /\ pc = "doc_write"
    /\ \/ Raise("write", ExceptDocling("write"))
       \/ /\ pc' = "doc_convert"
          /\ UNCHANGED <<exc, ret>>
    /\ UNCHANGED <<file, tmp, sheet, df, canon, again, chunks, pending>>

\* line 202: converter.convert(tmp_path)
Convert ==
    /\ pc = "doc_convert"
    /\ \/ /\ exc' = "convert"
          /\ pending' = "exception"
          /\ pc' = "doc_finally"
       \/ /\ pc' = "doc_export"
          /\ UNCHANGED <<exc, pending>>
    /\ UNCHANGED <<file, tmp, sheet, df, canon, again, chunks, ret>>

\* line 203: return result.document.export_to_markdown(), None
Export ==
    /\ pc = "doc_export"
    /\ \/ /\ exc' = "export_to_markdown"
          /\ pending' = "exception"
       \/ /\ pending' = "return"
          /\ UNCHANGED exc
    /\ pc' = "doc_finally"
    /\ UNCHANGED <<file, tmp, sheet, df, canon, again, chunks, ret>>

\* lines 204-207: the finally clause, then the pending return or exception;
\* an exception of os.remove replaces what was pending
Finally ==
    /\ pc = "doc_finally"
    /\ \/ /\ tmp.exists
          /\ Raise("remove", ExceptDocling("remove"))
          /\ UNCHANGED tmp
       \/ /\ tmp' = [tmp EXCEPT !.exists = FALSE]
          /\ IF pending = "exception"
             THEN /\ pc' = ExceptDocling(exc).pc
                  /\ ret' = ExceptDocling(exc).ret
             ELSE /\ pc' = "returned"
                  /\ ret' = [text |-> MarkdownText, table |-> None]
          /\ UNCHANGED exc
    /\ UNCHANGED <<file, sheet, df, canon, again, chunks, pending>>

----------------------------------------------------------------------------
(* The uploads the model runs on.                                          *)

MaxCols == 2

MaxRows == 1

MaxLines == 3

MaxDated == 2

MaxGroups == 12

MaxSheets == 2

\* raw column names as exports spell them
RawNames ==
    { <<"U", "n", "b", "l", "e", "n", "d", "e", "d", "C", "o", "s", "t">>, <<"P", "r", "e", "T", "a", "x", "C", "o", "s", "t">>, <<" ", "C", "o", "s", "t", " ">>, <<"A", "m", "o", "u", "n", "t">>,
      <<"P", "r", "o", "d", "u", "c", "t", "N", "a", "m", "e">>, <<"S", "e", "r", "v", "i", "c", "e", "N", "a", "m", "e">>, <<"S", "e", "r", "v", "i", "c", "e">>,
      <<"U", "s", "a", "g", "e", "S", "t", "a", "r", "t", "D", "a", "t", "e">>, <<"D", "a", "t", "e">>,
      <<"A", "v", "a", "i", "l", "a", "b", "i", "l", "i", "t", "y", "Z", "o", "n", "e">>, <<"R", "e", "g", "i", "o", "n">>, <<"R", "e", "s", "o", "u", "r", "c", "e", "I", "d">>, <<"N", "o", "t", "e", "s">> }

Variations(standard) ==
    LET e == CHOOSE x \in DOMAIN col_map : col_map[x][1] = standard
    IN  {col_map[e][2][k] : k \in DOMAIN col_map[e][2]}

\* the cells a raw column of a given name may hold
CostCells == {Num(2500), Str(<<"$", "1", ",", "2", "0", "0", ".", "5", "0">>), Str(<<"f", "r", "e", "e">>), NaN}

TextCells == {Str(<<" ", "a", "w", "s", " ", "E", "C", "2", " ">>), Str(<<"S", "3">>), NaN}

DateCells == {Str(<<"2", "0", "2", "4", "-", "0", "1", "-", "1", "5">>), Str(<<"s", "o", "o", "n">>)}

OtherCells == {Str(<<"x">>)}

CellsFor(name) ==
    LET n == Strip(Lower(name))
    IN  IF n \in Variations(CostCol) THEN CostCells
        ELSE IF n \in Variations(ServiceCol) \cup Variations(RegionCol)
                      \cup Variations(ResourceIdCol) THEN TextCells
        ELSE IF n \in Variations(DateCol) THEN DateCells
        ELSE OtherCells

ColumnLists(most) ==
    UNION {{c \in [1..k -> RawNames] : \A i, j \in 1..k : c[i] = c[j] => i = j} :
              k \in 1..most}

\* billing tables whose columns carry the standard names already
Ec2 == <<"e", "c", "2">>

Eip == <<"e", "i", "p">>

Rds == <<"r", "d", "s">>

Dollars(n) == Num(n * Mills)

LineCells(name) ==
    IF name = CostCol THEN {Num(0), Num(4), Num(2500), Dollars(100)}
    ELSE {Str(Ec2), Str(Eip), Str(Rds)}

DatedCells(name) ==
    IF name = CostCol
    THEN {Dollars(0), Dollars(100), Dollars(105), Dollars(110), Dollars(115)}
    ELSE IF name = ServiceCol THEN {Str(Ec2)}
    ELSE {Str(<<"2", "0", "2", "4", "-", "0", "1", "-", "1", "5">>), Str(<<"2", "0", "2", "4", "-", "0", "2", "-", "0", "3">>), Str(<<"s", "o", "o", "n">>)}

PlacedCells(name) ==
    IF name = CostCol THEN {Num(0), Num(2500), Dollars(100)}
    ELSE IF name = ServiceCol THEN {Str(Ec2), Str(Eip)}
    ELSE IF name = RegionCol THEN {Str(<<"u", "s", "-", "e", "a", "s", "t", "-", "1", " ">>)}
    ELSE {Str(<<"i", "-", "1">>), Str(<<"v", "o", "l", "-", "1">>)}

\* the cells of a column of a table of the given family
CellsOf(family, name) ==
    CASE family = "raw" -> CellsFor(name)
      [] family = "line" -> LineCells(name)
      [] family = "dated" -> DatedCells(name)
      [] family = "placed" -> PlacedCells(name)

\* the rows a frame with the given columns may hold
RowsFor(cols, family) ==
    {r \in [DOMAIN cols -> UNION {CellsOf(family, cols[i]) : i \in DOMAIN cols}] :
        \A i \in DOMAIN cols : r[i] \in CellsOf(family, cols[i])}

FramesOf(cols, family, n) ==
    {Frame(cols, rows) : rows \in [1..n -> RowsFor(cols, family)]}

\* raw tables: distinct raw names, cells by the kind of the column
RawTables(most_cols, most_rows) ==
    UNION {FramesOf(c, "raw", n) : c \in ColumnLists(most_cols), n \in 1..most_rows}

LineTables(most) ==
    UNION {FramesOf(<<ServiceCol, CostCol>>, "line", n) : n \in 1..most}

DatedTables(most) ==
    UNION {FramesOf(c, "dated", n) :
              c \in {<<DateCol, ServiceCol, CostCol>>,
                     <<MonthCol, ServiceCol, CostCol>>},
              n \in 1..most}

PlacedTables(most) ==
    UNION {FramesOf(<<ResourceIdCol, ServiceCol, RegionCol, CostCol>>,
                    "placed", n) : n \in 1..most}

\* n services (or n resources of n services), one row each; the first z
\* cost nothing, the others base, base + step, ... dollars
GroupName(i) == <<"S", "v", "c">> \o IntDigits(i)

ResourceName(i) == <<"i", "-">> \o IntDigits(i)

WideRow(cols, i, z, base, step) ==
    [k \in DOMAIN cols |->
        IF cols[k] = CostCol
        THEN (IF i <= z THEN Num(0) ELSE Dollars(base + (i - z - 1) * step))
        ELSE IF cols[k] = ServiceCol THEN Str(GroupName(i))
        ELSE Str(ResourceName(i))]

WideTables(most) ==
    {Frame(cols, [i \in 1..n |-> WideRow(cols, i, z, base, step)]) :
        cols \in {<<ServiceCol, CostCol>>, <<ResourceIdCol, ServiceCol, CostCol>>},
        n \in 1..most, z \in 0..2, base \in {3, 10}, step \in {0, 10}}

BillingTables(lines, dated, groups) ==
    LineTables(lines) \cup DatedTables(dated) \cup PlacedTables(dated)
        \cup WideTables(groups)

\* the sheets of the uploads of the router
EmptySheet == Frame(<<<<"S", "e", "r", "v", "i", "c", "e">>, <<"C", "o", "s", "t">>>>, <<>>)

BillingSheet ==
    Frame(<<<<"S", "e", "r", "v", "i", "c", "e">>, <<"C", "o", "s", "t">>>>, << <<Str(<<" ", "a", "w", "s", " ", "E", "C", "2", " ">>), Str(<<"$", "1", ",", "2", "0", "0", ".", "5", "0">>)>> >>)

TwoCostsSheet ==
    Frame(<<<<"S", "e", "r", "v", "i", "c", "e">>, <<"U", "n", "b", "l", "e", "n", "d", "e", "d", "C", "o", "s", "t">>, <<"C", "o", "s", "t">>>>,
          << <<Str(<<"S", "3">>), Num(2500), Num(2500)>> >>)

TwoDatesSheet ==
    Frame(<<<<"S", "e", "r", "v", "i", "c", "e">>, <<"C", "o", "s", "t">>, <<"U", "s", "a", "g", "e", "S", "t", "a", "r", "t", "D", "a", "t", "e">>, <<"D", "a", "t", "e">>>>,
          << <<Str(<<"S", "3">>), Num(2500), Str(<<"2", "0", "2", "4", "-", "0", "1", "-", "1", "5">>), Str(<<"2", "0", "2", "4", "-", "0", "1", "-", "1", "5">>)>> >>)

NotesSheet == Frame(<<<<"N", "o", "t", "e", "s">>>>, << <<Str(<<"x">>)>> >>)

Sheets == {EmptySheet, BillingSheet, TwoCostsSheet, TwoDatesSheet, NotesSheet}

SheetLists(most) == UNION {[1..k -> Sheets] : k \in 1..most}

FileNames == {<<"b", "i", "l", "l", ".", "p", "d", "f">>, <<"n", "o", "t", "e", "s">>}

Upload(type, name, sheets) == [type |-> type, name |-> name, sheets |-> sheets]

Uploads(most) ==
    {Upload(t, n, sh) : t \in {CsvType, XlsxType, PdfType}, n \in FileNames,
                        sh \in SheetLists(most)}

----------------------------------------------------------------------------
(* Specifications.                                                         *)

\* the state extract_text is entered in
Entered(f) ==
    /\ file = f
    /\ tmp = NoTmp
    /\ sheet = 0
    /\ canon = NoOutcome
    /\ again = NoOutcome
    /\ chunks = NoOutcome
    /\ exc = "none"
    /\ pending = "none"
    /\ ret = NoRet

\* extract_text on every upload
Init ==
    /\ pc = "start"
    /\ df = NoFrame
    /\ \E f \in Uploads(MaxSheets) : Entered(f)

Next ==
    \/ Dispatch
    \/ ReadCsv
    \/ NormalizeCsv
    \/ GenerateCsv
    \/ OpenExcel
    \/ ReadSheet
    \/ NormalizeExcel
    \/ GenerateExcel
    \/ CreateTemp
    \/ WriteTemp
    \/ Convert
    \/ Export
    \/ Finally

Spec == Init /\ [][Next]_vars

\* the CSV path once pd.read_csv has delivered the frame t
CsvRead(t) ==
    /\ pc = "csv_normalize"
    /\ df = t
    /\ Entered(Upload(CsvType, <<"b", "i", "l", "l", ".", "c", "s", "v">>, <<t>>))

\* normalize_columns applied to its own output
Renormalize ==
    /\ pc = "csv_chunks"
    /\ again' = normalize_columns(canon.df)
    /\ pc' = "renormalized"
    /\ UNCHANGED <<file, tmp, sheet, df, canon, chunks, exc, pending, ret>>

\* normalize_columns on raw tables, once and twice
InitNormalize == \E t \in RawTables(MaxCols, MaxRows) : CsvRead(t)

NextNormalize == NormalizeCsv \/ Renormalize

SpecNormalize == InitNormalize /\ [][NextNormalize]_vars

\* normalize_columns, then generate_finops_chunks, on billing tables
InitChunks ==
    \E t \in BillingTables(MaxLines, MaxDated, MaxGroups) : CsvRead(t)

NextChunks == NormalizeCsv \/ GenerateCsv

SpecChunks == InitChunks /\ [][NextChunks]_vars

----------------------------------------------------------------------------
(* Properties.                                                             *)

Running ==
    pc \in {"start", "csv_read", "csv_normalize", "csv_chunks", "xlsx_open",
            "xlsx_sheet", "xlsx_normalize", "xlsx_chunks", "doc_create",
            "doc_write", "doc_convert", "doc_export", "doc_finally"}

BeginsWithError(text) ==
    /\ Len(text.literal) >= Len(ErrorWord)
    /\ SubSeq(text.literal, 1, Len(ErrorWord)) = ErrorWord

\* a stage failed: an exception was raised, or the frame read was empty
StageFailed == exc # "none" \/ (df # NoFrame /\ IsEmpty(df))

\* C1: in the document path the temporary file that was created no longer
\* exists when extract_text returns, whatever the exit path.
C1_TempFileGoneOnReturn ==
    (pc = "returned" /\ tmp.created) => ~tmp.exists

\* C2: whatever the content type and whichever stage fails, extract_text
\* returns (a text beginning with "Error", None); no exception reaches the
\* caller.
C2_FailureReturnsErrorText ==
    ~Running =>
        /\ pc = "returned"
        /\ StageFailed => (BeginsWithError(ret.text) /\ ret.table = None)

\* C2 witness: os.remove failed in the finally clause after the conversion
\* had succeeded, and the call returned the error text.
C2_RemoveFailureCaught ==
    /\ pc = "returned"
    /\ exc = "remove"
    /\ pending = "return"
    /\ BeginsWithError(ret.text)
    /\ ret.table = None

\* normalize_columns has run on df
Normalized == pc # "csv_normalize"

\* the raw table as line 12 names its columns
Cleaned == CleanColumnNames(df)

\* C3: a raw table with a column that is a cost synonym (several of them
\* included) is normalised without an exception, and every cell of the cost
\* column of the result is a number.
C3_CostColumnNumeric ==
    (Normalized /\ \E v \in Variations(CostCol) : HasCol(Cleaned, v)) =>
        /\ ~canon.raised
        /\ HasCol(canon.df, CostCol)
        /\ \A i \in ColsNamed(canon.df, CostCol) :
              \A r \in DOMAIN canon.df.rows : canon.df.rows[r][i].t = "num"

\* C4: normalize_columns applied to a table it returned gives back the same
\* column names in the same order and the same cells.
C4_NormalizeIdempotent ==
    pc = "renormalized" => (~again.raised /\ again.df = canon.df)

\* C8: for every standard name with a synonym among the columns, the result
\* has exactly one column of that name, in the place of the first synonym
\* of the priority list that is present.
C8_OneColumnPerStandardName ==
    Normalized =>
        \A e \in DOMAIN col_map :
            FirstMatch(Cleaned, col_map[e][2]) # 0 =>
                /\ ~canon.raised
                /\ ColsNamed(canon.df, col_map[e][1])
                     = ColsNamed(Cleaned,
                                 col_map[e][2][FirstMatch(Cleaned, col_map[e][2])])
                /\ Cardinality(ColsNamed(canon.df, col_map[e][1])) = 1

\* generate_finops_chunks has returned its chunks
Generated == pc = "returned" /\ chunks # NoOutcome /\ ~chunks.raised

Emitted == chunks.chunks

KindsAt(cs, I) == {cs[i].kind : i \in I}

Positions(cs, kind) == {i \in DOMAIN cs : cs[i].kind = kind}

RECURSIVE SumAmounts(_, _)
SumAmounts(cs, I) ==
    IF I = {} THEN 0
    ELSE LET i == CHOOSE x \in I : TRUE
         IN  cs[i].amount + SumAmounts(cs, I \ {i})

\* the table has the columns cost and service and no other
OnlyCostAndService ==
    /\ Len(Cleaned.cols) = 2
    /\ HasCol(Cleaned, CostCol)
    /\ HasCol(Cleaned, ServiceCol)

ServiceCount == Cardinality({KeyOf(chunks.df, <<ServiceCol>>, r) : r \in AllRows(chunks.df)})

\* C5 (as stated): a table with only cost and service yields one total
\* chunk followed by at most 10 service chunks and nothing else.
C5_OnlyOverviewAndServices ==
    (Generated /\ OnlyCostAndService) =>
        /\ Emitted[1].kind = "total"
        /\ Len(Emitted) <= 1 + TopServices
        /\ KindsAt(Emitted, 2..Len(Emitted)) \subseteq {"service"}

\* C5 (amended): such a table yields one total chunk, then one chunk for
\* each of at most 10 services, then the idle section of step 6 (a header
\* and at most 5 service items), and no trend, alert, region or resource
\* chunk.
C5_OverviewServicesIdleSection ==
    (Generated /\ OnlyCostAndService) =>
        LET k == Min(ServiceCount, TopServices)
            h == k + 2
        IN  /\ Emitted[1].kind = "total"
            /\ KindsAt(Emitted, 2..(k + 1)) \subseteq {"service"}
            /\ Len(Emitted) >= h
            /\ Emitted[h].kind \in {"waste_header", "lowest_header"}
            /\ Len(Emitted) <= h + (IF Emitted[h].kind = "waste_header"
                                    THEN TopWasteServices ELSE LowestShown)
            /\ KindsAt(Emitted, (h + 1)..Len(Emitted))
                 \subseteq (IF Emitted[h].kind = "waste_header"
                            THEN {"waste_service"} ELSE {"lowest_service"})

\* C5 witness: more than 10 services in a table of cost and service, of
\* which 10 got a chunk.
C5_ElevenServicesTenShown ==
    /\ Generated /\ OnlyCostAndService
    /\ ServiceCount > TopServices
    /\ Cardinality(Positions(Emitted, "service")) = TopServices

HasCostAndService == HasCol(Cleaned, CostCol) /\ HasCol(Cleaned, ServiceCol)

WholeCents ==
    \A r \in AllRows(chunks.df) : CostOf(chunks.df, r) % 10 = 0

ServiceAmounts == SumAmounts(Emitted, Positions(Emitted, "service"))

\* C6 (as stated): the costs of the service chunks add up to the amount of
\* the total chunk, for any number of services.
C6_ServiceCostsSumToTotal ==
    (Generated /\ HasCostAndService) => ServiceAmounts = Emitted[1].amount

\* C6 (amended): they add up to it when the table has at most 10 services
\* and every cost is a whole number of cents.
C6_SumToTotalUpToTenServices ==
    (Generated /\ HasCostAndService /\ ServiceCount <= TopServices /\ WholeCents)
        => ServiceAmounts = Emitted[1].amount

\* C6 witness: exactly 10 services with costs that differ, all shown.
C6_TenServicesShown ==
    /\ Generated /\ HasCostAndService /\ WholeCents
    /\ ServiceCount = TopServices
    /\ Emitted[2].amount # Emitted[TopServices + 1].amount
    /\ ServiceAmounts = Emitted[1].amount

\* the monthly series the chunks were computed from
Series == MonthlySpend(chunks.df)

AlertsFor(period) ==
    {i \in Positions(Emitted, "alert") : Emitted[i].period = period}

\* C7: bucket i gets an alert exactly when it has a predecessor and
\* |current - previous| / previous * 100 > 10; the alert says "increased"
\* for a rise and "decreased" for a fall.  (Buckets after a bucket of 0 are
\* left out: the quotient is not defined there.)
C7_AlertIffChangeAboveTenPercent ==
    (Generated /\ HasCostAndService /\ HasCol(chunks.df, MonthCol)) =>
        \A i \in DOMAIN Series :
            LET cur  == Series[i][2]
                prev == IF i > 1 THEN Series[i - 1][2] ELSE 1
                due  == i > 1 /\ Abs(cur - prev) * 100 > AlertPercent * prev
            IN  prev > 0 =>
                  /\ Cardinality(AlertsFor(Series[i][1][1])) = (IF due THEN 1 ELSE 0)
                  /\ \A a \in AlertsFor(Series[i][1][1]) :
                        Emitted[a].direction
                          = (IF cur > prev THEN "increased" ELSE "decreased")

\* C9: the trend chunk and the alerts appear only when the table has a
\* date column of which at least one value parses.
C9_TrendOnlyWhenADateParses ==
    (Generated /\ HasCostAndService) =>
        (Positions(Emitted, "trend") \cup Positions(Emitted, "alert") # {} =>
            /\ HasCol(Cleaned, DateCol)
            /\ \E r \in AllRows(chunks.df) :
                  chunks.df.rows[r][ColOf(chunks.df, DateCol)].t = "ts")

\* the fallback items of the chunks, as <<key, amount>>
LowestItems ==
    LET I == Positions(Emitted, "lowest_resource") \cup Positions(Emitted, "lowest_service")
        first == CHOOSE i \in I : \A j \in I : i <= j
    IN  IF I = {} THEN <<>>
        ELSE [k \in 1..Cardinality(I) |->
                LET c == Emitted[first + k - 1]
                IN  IF c.kind = "lowest_resource"
                    THEN <<<<Str(c.resource_id), Str(c.service)>>, c.amount>>
                    ELSE <<<<Str(c.service)>>, c.amount>>]

\* the groups the fallback is about: resource and service, or service alone
FallbackGroups ==
    GroupSum(chunks.df,
             IF HasCol(chunks.df, ResourceIdCol)
             THEN <<ResourceIdCol, ServiceCol>> ELSE <<ServiceCol>>,
             AllRows(chunks.df))

\* C10: with no waste candidate, the fallback lists the groups with the 5
\* smallest costs among the groups whose cost is > 0, in ascending order:
\* min(5, number of such groups) items.
C10_FallbackFiveLowestPositive ==
    (Generated /\ HasCostAndService /\ PotentialWaste(chunks.df) = {}) =>
        LET want == HeadN(PositiveOnly(SortAscending(FallbackGroups)), LowestShown)
        IN  LowestItems = [k \in DOMAIN want |-> <<want[k][1], Money(want[k][2])>>]

====
